---------------------------- MODULE Spec2Model ----------------------------
(***************************************************************************)
(* Model of importAsset.py: batch import of Alembic and FBX assets through *)
(* the host editor's scripting API.                                        *)
(*                                                                         *)
(* Python strings that the code inspects (filenames, file-type selectors)  *)
(* are sequences of one-character strings, so that str.lower() and the     *)
(* `in` substring test are computed as Python computes them.  A directory  *)
(* path is a string too; its text stands as one symbol.                    *)
(***************************************************************************)
EXTENDS Integers, Sequences, FiniteSets, TLC

(***************************************************************************)
(* Bounds                                                                  *)
(***************************************************************************)
\* longest directory listing
MaxFiles == 2
\* longest filename, in chunks, handed to the classifiers in SpecClassify
MaxChunks == 2

(***************************************************************************)
(* Python str: lower() and the substring test                              *)
(***************************************************************************)
UpperAlpha ==
  << "A","B","C","D","E","F","G","H","I","J","K","L","M",
     "N","O","P","Q","R","S","T","U","V","W","X","Y","Z" >>

LowerAlpha ==
  << "a","b","c","d","e","f","g","h","i","j","k","l","m",
     "n","o","p","q","r","s","t","u","v","w","x","y","z" >>

AlphaIdx == DOMAIN UpperAlpha

\* str.lower() on one character
LowerChar(c) ==
  IF \E i \in AlphaIdx : UpperAlpha[i] = c
    THEN LowerAlpha[CHOOSE i \in AlphaIdx : UpperAlpha[i] = c]
    ELSE c

\* str.lower()
Lower(s) == [i \in 1..Len(s) |-> LowerChar(s[i])]

\* sub in s
Contains(s, sub) ==
  \E i \in 0..(Len(s) - Len(sub)) : SubSeq(s, i + 1, i + Len(sub)) = sub

StrAbc == << "a","b","c" >>
StrFbx == << "f","b","x" >>
StrEye == << "e","y","e" >>
StrCharacter == << "c","h","a","r","a","c","t","e","r" >>

(***************************************************************************)
(* Classifiers (stub policies of the source)                               *)
(***************************************************************************)
\* variant that forgets the case folding
shouldManuallyImportABC_NoLower(file) == Contains(file, StrEye)

shouldManuallyImportABC(file) == Contains(Lower(file), StrEye)

shouldManuallyImportFBX(file) == Contains(Lower(file), StrCharacter)

(***************************************************************************)
(* Task builders.  obj is the identity of the new AssetImportTask object.  *)
(* Only the properties the code sets are modelled, except `save`, which    *)
(* the FBX builder leaves at the class default.                            *)
(***************************************************************************)
FbxImportUI ==
  [ class |-> "FbxImportUI",
    import_mesh |-> TRUE,
    import_textures |-> FALSE,
    import_materials |-> FALSE,
    import_as_skeletal |-> FALSE ]

AbcImportSettings ==
  [ class |-> "AbcImportSettings",
    import_type |-> "GEOMETRY_CACHE",
    conversion_preset |-> "MAX",
    conversion_rotation |-> << 90, 0, 0 >>,
    flatten_tracks |-> TRUE,
    skip_empty |-> TRUE ]

buildStaticMeshImportTask(obj, srcPath, dstDir, automated, replaceExisting) ==
  [ obj |-> obj,
    destination_path |-> dstDir,
    automated |-> automated,
    options |-> FbxImportUI,
    filename |-> srcPath,
    replace_existing |-> replaceExisting,
    save |-> FALSE ]

buildAlembicImportTask(obj, srcPath, dstDir, automated, replaceExisting) ==
  [ obj |-> obj,
    destination_path |-> dstDir,
    automated |-> automated,
    options |-> AbcImportSettings,
    filename |-> srcPath,
    replace_existing |-> replaceExisting,
    save |-> TRUE ]


(***************************************************************************)
(* buildImportTaskList, lines 142-150: choice of builder and classifier    *)
(***************************************************************************)
\* variant with a plain `else` in place of the `elif` on 'fbx'
SelectType_ElseFbx(filetype) ==
  IF Lower(filetype) = StrAbc THEN "abc" ELSE "fbx"

SelectType(filetype) ==
  IF Lower(filetype) = StrAbc THEN "abc"
  ELSE IF Lower(filetype) = StrFbx THEN "fbx"
  ELSE "invalid"

buildImportTask(kind, obj, srcPath, dstDir, automated, replaceExisting) ==
  IF kind = "abc"
    THEN buildAlembicImportTask(obj, srcPath, dstDir, automated, replaceExisting)
    ELSE buildStaticMeshImportTask(obj, srcPath, dstDir, automated, replaceExisting)

shouldManuallyImport(kind, file) ==
  IF kind = "abc" THEN shouldManuallyImportABC(file)
                  ELSE shouldManuallyImportFBX(file)

(***************************************************************************)
(* Inputs                                                                  *)
(***************************************************************************)
\* no function entered, no exception raised
None == "None"
\* a string parameter the function does not have
NoStr == << >>
\* Python's None as the value returned at line 150; line 169 returns a pair
RetNone == << >>

DirAnim == << "C:/assets/anim_caches" >>
DirMesh == << "C:/assets/static_mesh" >>
Dirs == { DirAnim, DirMesh }

GameAnim == "/Game/Characters/Anim/"
GameProps == "/Game/Environment/Props/"
GameDirs == { GameAnim, GameProps }

NameEye == << "h","_","E","Y","E" >>
NameChar == << "C","h","a","r","a","c","t","e","r" >>
NameBox == << "b","o","x" >>
FileNames == { NameEye, NameChar, NameBox }

Selectors ==
  { StrAbc, << "A","b","C" >>, StrFbx, << "F","B","X" >>, << "o","b","j" >> }

\* a directory listing: distinct entries, in any order
Listings ==
  UNION { { l \in [1..n -> FileNames] :
              \A i, j \in 1..n : l[i] = l[j] => i = j } : n \in 0..MaxFiles }

\* a keyword argument: << >> when the caller omits it, << v >> when given
Given == { << >>, << TRUE >>, << FALSE >> }

\* the value a parameter with a default is bound to
Default(arg, dflt) == IF arg = << >> THEN dflt ELSE arg[1]

(***************************************************************************)
(* State                                                                   *)
(***************************************************************************)
VARIABLES
  fs,            \* directory -> listing, as os.listdir returns it
  globals,       \* module namespace, restricted to the names the functions
                 \* read as free variables (srcDir, character, anim): the
                 \* module binds none of them, the interpreter session may
  pc,            \* position of the running invocation
  entry,         \* entry point invoked
  args,          \* its parameters, defaults applied
  bArgs,         \* parameters of buildImportTaskList
  kind,          \* builder/classifier pair chosen at lines 142-147
  entries,       \* listing iterated by the loop at line 156
  idx,           \* position of that loop
  bManual,       \* manualTasks of buildImportTaskList
  bAuto,         \* autoTasks of buildImportTaskList
  retval,        \* value returned by buildImportTaskList
  exc,           \* exception that ended the invocation, or None
  manualTasks,   \* manualTasks of the batch function
  autoTasks,     \* autoTasks of the batch function
  slow,          \* total_frames and text_label of batchImportVerbose
  k,             \* position of the loop at line 214
  stdout,        \* messages printed
  osLog,         \* directories listed
  hostLog,       \* calls into the host editor, and their returns
  hostDepth,     \* host import calls in progress
  cpc,           \* classifier check: position
  cFile,         \* classifier check: filename
  cKind,         \* classifier check: classifier applied
  cResult        \* classifier check: value returned

envVars == << fs, globals >>
callVars == << entry, args >>
bitlVars == << bArgs, kind, entries, idx, bManual, bAuto >>
batchVars == << manualTasks, autoTasks, slow, k >>
obsVars == << stdout, osLog, hostLog, hostDepth >>
cVars == << cpc, cFile, cKind, cResult >>
vars == << envVars, pc, callVars, bitlVars, retval, exc, batchVars, obsVars, cVars >>

BuildArgs(filetype, srcPath, gameDir, replaceExisting) ==
  [ filetype |-> filetype, srcPath |-> srcPath, gameDir |-> gameDir,
    replaceExisting |-> replaceExisting ]

NoArgs == BuildArgs(NoStr, NoStr, None, FALSE)

NoSlow ==
  [ total_frames |-> 0,
    text_label |-> [ filetype |-> NoStr, character |-> None, anim |-> None ] ]

FreeNames == { "srcDir", "character", "anim" }

\* the namespaces a session can present: any of the free names bound or not
Namespaces ==
  { [ n \in B |-> full[n] ] :
      full \in [ srcDir : Dirs, character : {"hero"}, anim : {"run"} ],
      B \in SUBSET FreeNames }

\* a global name lookup succeeds
Bound(name) == name \in DOMAIN globals

Idle ==
  /\ pc = "idle"
  /\ entry = None /\ args = NoArgs
  /\ bArgs = NoArgs /\ kind = None /\ entries = << >> /\ idx = 0
  /\ bManual = << >> /\ bAuto = << >>
  /\ retval = RetNone /\ exc = None
  /\ manualTasks = << >> /\ autoTasks = << >> /\ slow = NoSlow /\ k = 0
  /\ stdout = << >> /\ osLog = << >> /\ hostLog = << >> /\ hostDepth = 0

Init ==
  /\ fs \in [Dirs -> Listings]
  /\ fs[DirMesh] = << NameChar, NameBox >>
  /\ globals \in Namespaces
  /\ Idle
  /\ cpc = "off" /\ cFile = << >> /\ cKind = None /\ cResult = FALSE


(***************************************************************************)
(* Invocation of an entry point.  given is the overwrite flag as the       *)
(* caller wrote it; every entry point declares replaceExisting=False.      *)
(***************************************************************************)
Invoke(fn, filetype, srcPath, gameDir, given) ==
  /\ pc = "idle"
  /\ entry' = fn
  /\ args' = BuildArgs(filetype, srcPath, gameDir, Default(given, FALSE))
  /\ UNCHANGED << envVars, kind, entries, idx, bManual, bAuto, retval, exc,
                  batchVars, obsVars, cVars >>

CallBuildImportTaskList ==
  \E ft \in Selectors, sp \in Dirs, gd \in GameDirs, re \in Given :
    /\ Invoke("buildImportTaskList", ft, sp, gd, re)
    /\ bArgs' = args'
    /\ pc' = "bitl_select"

CallBatchImportAlembic ==
  \E sp \in Dirs, gd \in GameDirs, re \in Given :
    /\ Invoke("batchImportAlembic", NoStr, sp, gd, re)
    /\ bArgs' = bArgs
    /\ pc' = "batch_build"

CallBatchImportVerbose ==
  \E ft \in Selectors, sp \in Dirs, gd \in GameDirs, re \in Given :
    /\ Invoke("batchImportVerbose", ft, sp, gd, re)
    /\ bArgs' = bArgs
    /\ pc' = "batch_build"

\* arguments of the call at line 184
AlembicBuildArgs(a) == BuildArgs(StrAbc, a.srcPath, a.gameDir, FALSE)

\* arguments of the call at line 201
VerboseBuildArgs(a) == BuildArgs(StrAbc, a.srcPath, a.gameDir, FALSE)

\* lines 184 and 201: the batch function calls buildImportTaskList
BatchCallBuild ==
  /\ pc = "batch_build"
  /\ bArgs' = IF entry = "batchImportAlembic" THEN AlembicBuildArgs(args)
                                              ELSE VerboseBuildArgs(args)
  /\ pc' = "bitl_select"
  /\ UNCHANGED << envVars, callVars, kind, entries, idx, bManual, bAuto,
                  retval, exc, batchVars, obsVars, cVars >>

\* where buildImportTaskList returns to
AfterBuild == IF entry = "buildImportTaskList" THEN "done" ELSE "batch_unpack"

(***************************************************************************)
(* buildImportTaskList                                                     *)
(***************************************************************************)
\* lines 142-150
BitlSelect ==
  /\ pc = "bitl_select"
  /\ kind' = SelectType(bArgs.filetype)
  /\ IF kind' = "invalid"
       THEN /\ stdout' = Append(stdout, [ msg |-> "invalid filetype",
                                          filetype |-> bArgs.filetype ])
            /\ retval' = RetNone
            /\ pc' = AfterBuild
       ELSE /\ pc' = "bitl_listdir"
            /\ UNCHANGED << stdout, retval >>
  /\ UNCHANGED << envVars, callVars, bArgs, entries, idx, bManual, bAuto, exc,
                  batchVars, osLog, hostLog, hostDepth, cVars >>

\* lines 154-156: the two arrays, then os.listdir(srcDir).  srcDir is no
\* parameter or local of the function: the name is looked up in the module
\* namespace, and the lookup raises NameError when it is not bound there.
BitlListdir ==
  /\ pc = "bitl_listdir"
  /\ bManual' = << >>
  /\ bAuto' = << >>
  /\ IF ~Bound("srcDir")
       THEN /\ exc' = "NameError"
            /\ pc' = "done"
            /\ UNCHANGED << entries, idx, osLog >>
       ELSE /\ osLog' = Append(osLog, globals.srcDir)
            /\ entries' = fs[globals.srcDir]
            /\ idx' = 1
            /\ pc' = "bitl_loop"
            /\ exc' = exc
  /\ UNCHANGED << envVars, callVars, bArgs, kind, retval, batchVars,
                  stdout, hostLog, hostDepth, cVars >>

\* lines 156-167: one iteration of the loop
BitlLoopBody ==
  /\ pc = "bitl_loop"
  /\ idx <= Len(entries)
  /\ LET file == entries[idx]
         obj == Len(bManual) + Len(bAuto) + 1
     IN /\ stdout' = Append(stdout, [ msg |-> "Importing",
                                      src |-> bArgs.srcPath,
                                      dst |-> bArgs.gameDir ])
        /\ IF shouldManuallyImport(kind, file)
             THEN /\ bManual' = Append(bManual,
                       buildImportTask(kind, obj, bArgs.srcPath, bArgs.gameDir,
                                       FALSE, bArgs.replaceExisting))
                  /\ bAuto' = bAuto
             ELSE /\ bAuto' = Append(bAuto,
                       buildImportTask(kind, obj, bArgs.srcPath, bArgs.gameDir,
                                       TRUE, bArgs.replaceExisting))
                  /\ bManual' = bManual
  /\ idx' = idx + 1
  /\ UNCHANGED << envVars, pc, callVars, bArgs, kind, entries, retval, exc,
                  batchVars, osLog, hostLog, hostDepth, cVars >>

\* line 169
BitlReturn ==
  /\ pc = "bitl_loop"
  /\ idx > Len(entries)
  /\ retval' = << bManual, bAuto >>
  /\ pc' = AfterBuild
  /\ UNCHANGED << envVars, callVars, bitlVars, exc, batchVars, obsVars, cVars >>

(***************************************************************************)
(* Host editor                                                             *)
(***************************************************************************)
ImportCall(tasks) == [ op |-> "import_asset_tasks", tasks |-> tasks ]

\* ASSET_TOOLS.import_asset_tasks(tasks): the call is entered
HostEnter(tasks, at) ==
  /\ hostLog' = Append(hostLog, ImportCall(tasks))
  /\ hostDepth' = hostDepth + 1
  /\ pc' = at

\* where each host import call returns to
AfterHost ==
  CASE pc = "host_manual" ->
         IF entry = "batchImportAlembic" THEN "alembic_auto" ELSE "verbose_label"
    [] pc = "host_auto" -> "alembic_return"
    [] pc = "host_single" -> "verbose_progress"

\* the host finishes an import call; the outcome of the import is the
\* host's, and the script does not read it
HostReturn ==
  /\ pc \in { "host_manual", "host_auto", "host_single" }
  /\ \E ok \in BOOLEAN :
       hostLog' = Append(hostLog, [ op |-> "returned", ok |-> ok ])
  /\ hostDepth' = hostDepth - 1
  /\ pc' = AfterHost
  /\ UNCHANGED << envVars, callVars, bitlVars, retval, exc, batchVars,
                  stdout, osLog, cVars >>


(***************************************************************************)
(* batchImportAlembic and batchImportVerbose                               *)
(***************************************************************************)
\* lines 184 and 201: manualTasks, autoTasks = <returned value>
BatchUnpack ==
  /\ pc = "batch_unpack"
  /\ IF retval = RetNone
       THEN /\ exc' = "TypeError"
            /\ pc' = "done"
            /\ UNCHANGED << manualTasks, autoTasks >>
       ELSE /\ manualTasks' = retval[1]
            /\ autoTasks' = retval[2]
            /\ pc' = "submit_manual"
            /\ exc' = exc
  /\ UNCHANGED << envVars, callVars, bitlVars, retval, slow, k, obsVars, cVars >>

\* variant that hands the automatic group to the first host call
AlembicFirstBatch_Auto(manual, auto) == auto

\* line 187
AlembicFirstBatch(manual, auto) == manual

\* line 188
AlembicSecondBatch(manual, auto) == auto

\* line 204
VerboseFirstBatch(manual, auto) == manual

\* lines 187 and 204
SubmitManual ==
  /\ pc = "submit_manual"
  /\ HostEnter(IF entry = "batchImportAlembic"
                 THEN AlembicFirstBatch(manualTasks, autoTasks)
                 ELSE VerboseFirstBatch(manualTasks, autoTasks),
               "host_manual")
  /\ UNCHANGED << envVars, callVars, bitlVars, retval, exc, batchVars,
                  stdout, osLog, cVars >>

\* line 188
AlembicSubmitAuto ==
  /\ pc = "alembic_auto"
  /\ HostEnter(AlembicSecondBatch(manualTasks, autoTasks), "host_auto")
  /\ UNCHANGED << envVars, callVars, bitlVars, retval, exc, batchVars,
                  stdout, osLog, cVars >>

\* line 190
AlembicReturn ==
  /\ pc = "alembic_return"
  /\ pc' = "done"
  /\ UNCHANGED << envVars, callVars, bitlVars, retval, exc, batchVars,
                  obsVars, cVars >>

\* lines 207-208.  character and anim are no parameters or locals of the
\* function: the f-string looks them up in the module namespace.
VerboseLabel ==
  /\ pc = "verbose_label"
  /\ IF ~Bound("character") \/ ~Bound("anim")
       THEN /\ exc' = "NameError"
            /\ pc' = "done"
            /\ slow' = slow
       ELSE /\ slow' = [ total_frames |-> Len(autoTasks) + 1,
                         text_label |-> [ filetype |-> args.filetype,
                                          character |-> globals.character,
                                          anim |-> globals.anim ] ]
            /\ pc' = "verbose_with"
            /\ exc' = exc
  /\ UNCHANGED << envVars, callVars, bitlVars, retval, manualTasks, autoTasks,
                  k, obsVars, cVars >>

\* lines 209-212: the slow task is entered and its dialog shown
VerboseWith ==
  /\ pc = "verbose_with"
  /\ hostLog' = hostLog \o
       << [ op |-> "ScopedSlowTask", total_frames |-> slow.total_frames,
            text_label |-> slow.text_label ],
          [ op |-> "make_dialog", can_cancel |-> TRUE ] >>
  /\ k' = 1
  /\ pc' = "verbose_loop"
  /\ UNCHANGED << envVars, callVars, bitlVars, retval, exc, manualTasks,
                  autoTasks, slow, stdout, osLog, hostDepth, cVars >>

\* lines 214-222: one automatic task is printed and handed to the host alone
VerboseSubmitOne ==
  /\ pc = "verbose_loop"
  /\ k <= Len(autoTasks)
  /\ LET task == autoTasks[k]
     IN /\ stdout' = Append(stdout, [ msg |-> "Importing",
                                      src |-> task.filename,
                                      dst |-> task.destination_path ])
        /\ HostEnter(<< task >>, "host_single")
  /\ UNCHANGED << envVars, callVars, bitlVars, retval, exc, batchVars,
                  osLog, cVars >>

\* line 225
VerboseProgress ==
  /\ pc = "verbose_progress"
  /\ hostLog' = Append(hostLog, [ op |-> "enter_progress_frame",
                                  work |-> 1 ])
  /\ k' = k + 1
  /\ pc' = "verbose_loop"
  /\ UNCHANGED << envVars, callVars, bitlVars, retval, exc, manualTasks,
                  autoTasks, slow, stdout, osLog, hostDepth, cVars >>

\* the loop at line 214 is exhausted: the `with` block is left and the
\* function returns
VerboseReturn ==
  /\ pc = "verbose_loop"
  /\ k > Len(autoTasks)
  /\ hostLog' = Append(hostLog, [ op |-> "ScopedSlowTask.__exit__" ])
  /\ pc' = "done"
  /\ UNCHANGED << envVars, callVars, bitlVars, retval, exc, batchVars,
                  stdout, osLog, hostDepth, cVars >>

Next ==
  \/ CallBuildImportTaskList
  \/ CallBatchImportAlembic
  \/ CallBatchImportVerbose
  \/ BatchCallBuild
  \/ BitlSelect
  \/ BitlListdir
  \/ BitlLoopBody
  \/ BitlReturn
  \/ BatchUnpack
  \/ SubmitManual
  \/ HostReturn
  \/ AlembicSubmitAuto
  \/ AlembicReturn
  \/ VerboseLabel
  \/ VerboseWith
  \/ VerboseSubmitOne
  \/ VerboseProgress
  \/ VerboseReturn

Spec == Init /\ [][Next]_vars


(***************************************************************************)
(* The classifiers on their own: a filename is drawn, one classifier is    *)
(* applied to it.                                                          *)
(***************************************************************************)
Chunks ==
  { << "e","y","e" >>, << "E","y" >>, << "e" >>, << "Y","E" >>,
    << "c","h","a","r","a","c" >>, << "T","e","r" >>,
    << "C","H","A","R","A","C","T","E","R" >>, << "x" >>, << "_" >> }

RECURSIVE Flatten(_)
Flatten(cs) == IF cs = << >> THEN << >> ELSE Head(cs) \o Flatten(Tail(cs))

ChunkNames ==
  UNION { { Flatten(cs) : cs \in [1..n -> Chunks] } : n \in 0..MaxChunks }

InitClassify ==
  /\ fs = [ d \in Dirs |-> << >> ]
  /\ globals = [ n \in {} |-> None ]
  /\ Idle
  /\ cpc = "ready" /\ cFile \in ChunkNames /\ cKind = None /\ cResult = FALSE

ClassifyABC ==
  /\ cpc = "ready"
  /\ cKind' = "abc"
  /\ cResult' = shouldManuallyImportABC(cFile)
  /\ cpc' = "done"
  /\ UNCHANGED << envVars, pc, callVars, bitlVars, retval, exc, batchVars,
                  obsVars, cFile >>

ClassifyFBX ==
  /\ cpc = "ready"
  /\ cKind' = "fbx"
  /\ cResult' = shouldManuallyImportFBX(cFile)
  /\ cpc' = "done"
  /\ UNCHANGED << envVars, pc, callVars, bitlVars, retval, exc, batchVars,
                  obsVars, cFile >>

NextClassify == ClassifyABC \/ ClassifyFBX

SpecClassify == InitClassify /\ [][NextClassify]_vars

(***************************************************************************)
(* Vocabulary of the properties                                            *)
(***************************************************************************)
\* the same character, letter case ignored
SameLetter(a, b) ==
  \/ a = b
  \/ \E i \in AlphaIdx : { a, b } = { UpperAlpha[i], LowerAlpha[i] }

\* t occurs in s, letter case ignored
OccursIgnoringCase(s, t) ==
  \E i \in 1..(Len(s) - Len(t) + 1) :
    \A j \in 1..Len(t) : SameLetter(s[i + j - 1], t[j])

\* s and t are the same word, letter case ignored
SameWord(s, t) ==
  /\ Len(s) = Len(t)
  /\ \A j \in 1..Len(t) : SameLetter(s[j], t[j])

Recognized(filetype) == SameWord(filetype, StrAbc) \/ SameWord(filetype, StrFbx)

\* the manual-trigger substring of a recognized selector
Trigger(filetype) == IF SameWord(filetype, StrAbc) THEN StrEye ELSE StrCharacter

InBatch == entry \in { "batchImportAlembic", "batchImportVerbose" }

\* every task built so far in this invocation
Built == bManual \o bAuto

IsImport(e) == e.op = "import_asset_tasks"

\* the host import calls made so far
ImportCalls == SelectSeq(hostLog, IsImport)

\* how many times the task object obj has been handed to the host
Submissions(obj) ==
  LET n[i \in 0..Len(ImportCalls)] ==
        IF i = 0 THEN 0
        ELSE n[i - 1]
             + Cardinality({ j \in DOMAIN ImportCalls[i].tasks :
                               ImportCalls[i].tasks[j].obj = obj })
  IN n[Len(ImportCalls)]

\* host import calls in progress after the first i events of the log
InProgress(i) ==
  Cardinality({ j \in 1..i : IsImport(hostLog[j]) })
    - Cardinality({ j \in 1..i : hostLog[j].op = "returned" })

(***************************************************************************)
(* C8: each classifier returns true exactly for the filenames that contain *)
(* its trigger substring ('eye' for abc, 'character' for fbx), letter case *)
(* ignored.                                                                *)
(***************************************************************************)
C8_ClassifierIsSubstringMatch ==
  cpc = "done" =>
    cResult = OccursIgnoringCase(cFile, IF cKind = "abc" THEN StrEye
                                                         ELSE StrCharacter)

\* a filename that matches 'eye' only once case is folded has been
\* classified manual by the abc classifier
C8_Witness ==
  /\ cpc = "done"
  /\ cKind = "abc"
  /\ cResult
  /\ ~Contains(cFile, StrEye)

(***************************************************************************)
(* C6: with a selector that is neither 'abc' nor 'fbx' (case ignored),     *)
(* buildImportTaskList builds no task, lists no directory, raises nothing, *)
(* and ends having printed one diagnostic and returned None.               *)
(***************************************************************************)
C6_InvalidSelectorIsReported ==
  (entry = "buildImportTaskList" /\ ~Recognized(args.filetype)) =>
    /\ Built = << >>
    /\ osLog = << >>
    /\ hostLog = << >>
    /\ exc = None
    /\ pc \in { "bitl_select", "done" }
    /\ pc = "done" =>
         /\ retval = RetNone
         /\ stdout = << [ msg |-> "invalid filetype", filetype |-> args.filetype ] >>

\* buildImportTaskList has returned on an unrecognized selector
C6_Witness ==
  /\ entry = "buildImportTaskList"
  /\ ~Recognized(args.filetype)
  /\ pc = "done"
  /\ Len(stdout) = 1

(***************************************************************************)
(* C3: in batchImportAlembic and batchImportVerbose the first host import  *)
(* call carries the manual group and has returned before any automatic     *)
(* task is handed to the host, no call mixes the two groups, and at most   *)
(* one host call is in progress at any time.                               *)
(***************************************************************************)
C3_ManualBeforeAutomatic ==
  InBatch =>
    /\ hostDepth \in { 0, 1 }
    /\ \A i \in DOMAIN hostLog :
         /\ InProgress(i) \in { 0, 1 }
         /\ IsImport(hostLog[i]) =>
              LET tasks == hostLog[i].tasks
              IN /\ \A a, b \in DOMAIN tasks : tasks[a].automated = tasks[b].automated
                 /\ (\E a \in DOMAIN tasks : tasks[a].automated) =>
                      /\ i > 2
                      /\ IsImport(hostLog[1])
                      /\ hostLog[1].tasks = bManual
                      /\ hostLog[2].op = "returned"

\* batchImportAlembic has submitted a manual group and then an automatic
\* group, both non-empty
C3_Witness ==
  /\ entry = "batchImportAlembic"
  /\ pc = "done"
  /\ Len(ImportCalls) = 2
  /\ ImportCalls[1].tasks # << >>
  /\ ImportCalls[2].tasks # << >>
  /\ \A a \in DOMAIN ImportCalls[2].tasks : ImportCalls[2].tasks[a].automated


(***************************************************************************)
(* Further vocabulary                                                      *)
(***************************************************************************)
\* os.path.join(dir, file)
Join(dir, file) == dir \o << "/" >> \o file

\* buildImportTaskList has run to the end of the invocation entered with it
BuildEnded == entry = "buildImportTaskList" /\ pc = "done"

\* the batch function has received the two groups (lines 184, 201)
GroupsReceived ==
  InBatch /\ pc \notin { "idle", "batch_build", "bitl_select", "bitl_listdir",
                         "bitl_loop", "batch_unpack" }
          /\ retval # RetNone

Range(seq) == { seq[i] : i \in DOMAIN seq }

(***************************************************************************)
(* C1: for a recognized selector, buildImportTaskList returns a manual and *)
(* an automatic group holding exactly one task per entry of the source     *)
(* directory, each task in exactly one group, in the manual group exactly  *)
(* when the entry's name contains the trigger of the file type.            *)
(***************************************************************************)
C1_OneTaskPerEntry ==
  (BuildEnded /\ Recognized(args.filetype)) =>
    /\ exc = None
    /\ Len(retval) = 2
    /\ LET listing == fs[args.srcPath]
           manualEntries ==
             { i \in DOMAIN listing :
                 OccursIgnoringCase(listing[i], Trigger(args.filetype)) }
           manual == retval[1]
           auto == retval[2]
       IN /\ Len(manual) + Len(auto) = Len(listing)
          /\ Len(manual) = Cardinality(manualEntries)
          /\ \A a, b \in DOMAIN (manual \o auto) :
               (manual \o auto)[a].obj = (manual \o auto)[b].obj => a = b

(***************************************************************************)
(* C2: the source paths carried by the tasks buildImportTaskList returns   *)
(* are exactly the paths of the entries of the source directory, one task  *)
(* per path.  Stated for the invocations in which the directory listed is  *)
(* the one the caller named.                                               *)
(***************************************************************************)
C2_TaskPathsAreTheEntries ==
  (BuildEnded /\ exc = None /\ Len(retval) = 2
     /\ osLog = << args.srcPath >>) =>
    LET listing == fs[args.srcPath]
        tasks == retval[1] \o retval[2]
    IN /\ { tasks[i].filename : i \in DOMAIN tasks }
            = { Join(args.srcPath, listing[i]) : i \in DOMAIN listing }
       /\ \A a, b \in DOMAIN tasks :
            tasks[a].filename = tasks[b].filename => a = b

(***************************************************************************)
(* C4: when an invocation of batchImportAlembic or batchImportVerbose has  *)
(* ended, every task it built has been handed to the host exactly once.    *)
(***************************************************************************)
C4_EveryTaskSubmittedOnce ==
  (InBatch /\ pc = "done") =>
    \A i \in DOMAIN Built : Submissions(Built[i].obj) = 1

(***************************************************************************)
(* C5: batchImportVerbose, holding N automatic tasks, hands them to the    *)
(* host one per call and reports progress exactly N times, each report     *)
(* right after the return of one task's call.                               *)
(***************************************************************************)
C5_ProgressOncePerTask ==
  (entry = "batchImportVerbose" /\ pc = "done" /\ Len(retval) = 2) =>
    LET N == Len(retval[2])
        reports == { i \in DOMAIN hostLog : hostLog[i].op = "enter_progress_frame" }
        singles == { i \in DOMAIN hostLog :
                       /\ IsImport(hostLog[i])
                       /\ Len(hostLog[i].tasks) = 1
                       /\ hostLog[i].tasks[1].automated }
    IN /\ Cardinality(reports) = N
       /\ Cardinality(singles) = N
       /\ \A i \in reports :
            /\ i > 2
            /\ hostLog[i - 1].op = "returned"
            /\ (i - 2) \in singles
       /\ \A t \in Range(retval[2]) :
            \E i \in singles : hostLog[i].tasks = << t >>

(***************************************************************************)
(* C7: batchImportVerbose called with an unrecognized selector builds no   *)
(* task, makes no host call, raises nothing, and ends having printed a     *)
(* diagnostic.                                                             *)
(***************************************************************************)
C7_VerboseRejectsInvalidSelector ==
  (entry = "batchImportVerbose" /\ ~Recognized(args.filetype)) =>
    /\ Built = << >>
    /\ hostLog = << >>
    /\ exc = None
    /\ pc = "done" =>
         \E i \in DOMAIN stdout : stdout[i].msg = "invalid filetype"

(***************************************************************************)
(* C9: every task built by batchImportAlembic or batchImportVerbose        *)
(* carries the overwrite flag of the caller (False when omitted); manual   *)
(* tasks are not automated, automatic tasks are.                           *)
(***************************************************************************)
C9_TasksCarryCallerFlags ==
  InBatch =>
    /\ \A i \in DOMAIN Built : Built[i].replace_existing = args.replaceExisting
    /\ \A i \in DOMAIN bManual : ~bManual[i].automated
    /\ \A i \in DOMAIN bAuto : bAuto[i].automated

(***************************************************************************)
(* C10: batchImportVerbose builds its tasks with the builder and the       *)
(* classifier of the selector it is given: 'fbx' gives mesh-only options   *)
(* grouped by 'character', 'abc' gives geometry-cache options grouped by   *)
(* 'eye'.                                                                  *)
(***************************************************************************)
C10_VerboseHonoursSelector ==
  (entry = "batchImportVerbose" /\ Recognized(args.filetype)
     /\ pc = "batch_unpack" /\ Len(retval) = 2) =>
    LET fbx == SameWord(args.filetype, StrFbx)
        manualEntries ==
          { i \in DOMAIN entries :
              OccursIgnoringCase(entries[i], Trigger(args.filetype)) }
    IN /\ \A i \in DOMAIN Built :
            Built[i].options = IF fbx THEN FbxImportUI ELSE AbcImportSettings
       /\ Len(retval[1]) = Cardinality(manualEntries)
       /\ Len(retval[2]) = Len(entries) - Cardinality(manualEntries)

=============================================================================
